---- MODULE Spec2Model ----
(***************************************************************************)
(* Binary-option replication (src/replication.py).                         *)
(*                                                                         *)
(* replicate_binary_option selects two strikes from an instrument table    *)
(* and returns two weighted legs, a textual note and a total cost;         *)
(* plot_binary_replication_payoff parses the two strikes back out of the   *)
(* note and evaluates the ideal and the replicated payoff over a price     *)
(* range.  Both are pure functions: the state is the table, the arguments  *)
(* of the latest call of each function, and what that call produced.       *)
(*                                                                         *)
(* Numbers: strikes, prices and targets are integer-valued; every value    *)
(* that comes out of a division is a float, modelled as an exact fraction  *)
(* [n, d] extended with the IEEE specials inf (1/0), -inf (-1/0), nan (0/0)*)
(* (numpy scalars divide by zero without raising).  Rounding is not        *)
(* modelled.                                                               *)
(***************************************************************************)
EXTENDS Integers, Sequences, FiniteSets, TLC

\* ---------------------------------------------------------------- bounds
MaxRows == 2          \* rows of the instrument table
MaxPrecision == 1     \* largest replication_precision passed

\* ------------------------------------------------------------ input sets
OptionClasses == {"call", "put"}                 \* option_type of a table row
OptionTypeArgs == {"call", "put", "straddle"}    \* option_type arguments
Strikes == {-1, 0, 2}
Expirations == {1, 2}
Targets == {0, 1, 2}
Precisions == 0..MaxPrecision
PriceRange == -2..3
DTypes == {"int64", "float64"}                   \* dtype of the strike column

RowData == [option_type : OptionClasses, strike : Strikes,
            expiration_timestamp : Expirations]

\* The last price quoted for the i-th instrument (prices are data the code
\* copies and multiplies, never branches on; each instrument has its own).
LastPrice(i) == 2 * i - 1

\* A table: a sequence of rows; instrument_name identifies the row (names are
\* unique, the i-th row is instrument i).
Tables ==
    UNION { { [i \in 1..n |-> [instrument_name |-> i,
                               option_type |-> f[i].option_type,
                               strike |-> f[i].strike,
                               expiration_timestamp |-> f[i].expiration_timestamp,
                               last_price |-> LastPrice(i)]]
              : f \in [1..n -> RowData] }
            : n \in 0..MaxRows }

\* ----------------------------------------------------------------- floats
Abs(x) == IF x < 0 THEN -x ELSE x
Sign(x) == IF x < 0 THEN -1 ELSE IF x > 0 THEN 1 ELSE 0

RECURSIVE GCD(_, _)
GCD(a, b) == IF b = 0 THEN a ELSE GCD(b, a % b)

\* The float n/d in lowest terms with d > 0; d = 0 gives inf, -inf or nan.
Float(n, d) ==
    IF d = 0 THEN [n |-> Sign(n), d |-> 0]
    ELSE LET g == GCD(Abs(n), Abs(d))
             s == Sign(d)
         IN [n |-> (s * n) \div g, d |-> (s * d) \div g]

FOf(i) == [n |-> i, d |-> 1]
NaN == [n |-> 0, d |-> 0]
IsNaN(a) == a.d = 0 /\ a.n = 0
IsInf(a) == a.d = 0 /\ a.n # 0
IsFinite(a) == a.d # 0

FNeg(a) == [n |-> -a.n, d |-> a.d]

FAdd(a, b) ==
    IF IsNaN(a) \/ IsNaN(b) THEN NaN
    ELSE IF IsInf(a) /\ IsInf(b) THEN (IF a.n = b.n THEN a ELSE NaN)
    ELSE IF IsInf(a) THEN a
    ELSE IF IsInf(b) THEN b
    ELSE Float(a.n * b.d + b.n * a.d, a.d * b.d)

FSub(a, b) == FAdd(a, FNeg(b))

FMul(a, b) ==
    IF IsNaN(a) \/ IsNaN(b) THEN NaN
    ELSE IF IsInf(a) \/ IsInf(b) THEN [n |-> Sign(a.n) * Sign(b.n), d |-> 0]
    ELSE Float(a.n * b.n, a.d * b.d)

\* a / b; the zero divisors that arise here are +0.0 (x - x), so x / 0 has
\* the sign of x.
FDiv(a, b) ==
    IF IsNaN(a) \/ IsNaN(b) THEN NaN
    ELSE IF IsInf(a) THEN (IF IsInf(b) THEN NaN
                           ELSE [n |-> a.n * (IF b.n < 0 THEN -1 ELSE 1), d |-> 0])
    ELSE IF IsInf(b) THEN FOf(0)
    ELSE Float(a.n * b.d, a.d * b.n)

\* IEEE comparisons: every comparison with nan is false.
FEq(a, b) == ~IsNaN(a) /\ ~IsNaN(b) /\ a = b
FLe(a, b) ==
    /\ ~IsNaN(a) /\ ~IsNaN(b)
    /\ IF IsInf(a) THEN (a.n < 0 \/ a = b)
       ELSE IF IsInf(b) THEN b.n > 0
       ELSE a.n * b.d <= b.n * a.d

\* np.maximum(x, 0)
FMax0(a) == IF IsNaN(a) THEN NaN ELSE IF a.n < 0 THEN FOf(0) ELSE a

\* ------------------------------------------------------- number formatting
DigitChars == <<"0", "1", "2", "3", "4", "5", "6", "7", "8", "9">>

RECURSIVE Digits(_)
Digits(n) ==
    IF n < 10 THEN <<DigitChars[n + 1]>>
    ELSE Digits(n \div 10) \o <<DigitChars[(n % 10) + 1]>>

\* f"{K}" for a numpy scalar of the strike column, as a sequence of characters:
\* an int64 prints its digits, an integer-valued float64 prints them followed
\* by ".0"; a negative number prints a leading "-".
FormatStrike(dtype, k) ==
    (IF k < 0 THEN <<"-">> ELSE <<>>)
    \o Digits(Abs(k))
    \o (IF dtype = "float64" THEN <<".", "0">> ELSE <<>>)

\* f"Binary {word} approx by ({fn}({K1}) - {fn}({K2})) / ({K2} - {K1})"
NoteText(word, fn, k1, k2) ==
    <<"B", "i", "n", "a", "r", "y", " ">> \o word
    \o <<" ", "a", "p", "p", "r", "o", "x", " ", "b", "y", " ">>
    \o <<"(", fn, "(">> \o k1 \o <<")", " ", "-", " ", fn, "(">> \o k2 \o <<")", ")">>
    \o <<" ", "/", " ", "(">> \o k2 \o <<" ", "-", " ">> \o k1 \o <<")">>

\* --------------------------------------------------------- table operations
\* df[df[column] == value]: the matching rows, in table order
df_expiry(tbl, expiry_timestamp) ==
    SelectSeq(tbl, LAMBDA r : r.expiration_timestamp = expiry_timestamp)

df_class(tbl, expiry_timestamp, cls) ==
    SelectSeq(df_expiry(tbl, expiry_timestamp), LAMBDA r : r.option_type = cls)

RECURSIVE SortedSeq(_)
SortedSeq(S) ==
    IF S = {} THEN <<>>
    ELSE LET m == CHOOSE x \in S : \A y \in S : x <= y
         IN <<m>> \o SortedSeq(S \ {m})

\* np.sort(df['strike'].unique())
sorted_strikes(df) == SortedSeq({df[i].strike : i \in DOMAIN df})

\* Mutants of searchsorted: the side argument ignored.
searchsorted_always_right(a, v, side) == Cardinality({i \in DOMAIN a : a[i] <= v})
searchsorted_always_left(a, v, side) == Cardinality({i \in DOMAIN a : a[i] < v})

\* np.searchsorted(a, v, side): the 0-based insertion index of v in sorted a
searchsorted(a, v, side) ==
    IF side = "left" THEN Cardinality({i \in DOMAIN a : a[i] < v})
    ELSE Cardinality({i \in DOMAIN a : a[i] <= v})

\* Mutant of first_row: .iloc[-1], the last matching row.
last_row(df, K) == LET m == SelectSeq(df, LAMBDA r : r.strike = K) IN m[Len(m)]

\* df[df['strike'] == K].iloc[0]
first_row(df, K) == SelectSeq(df, LAMBDA r : r.strike = K)[1]

\* ------------------------------------------------- replicate_binary_option
NoSuitableStrikes == "No suitable strikes found for replication."
InvalidOptionClass == "Option type must be 'call' or 'put'."

Raise(msg) == [raised |-> msg, sel |-> <<>>, result |-> <<>>]

\* Mutant of weight2_of: the sign of the second weight lost.
weight2_same_sign(K1, K2) == FDiv(FOf(1), FOf(K2 - K1))

weight1_of(K1, K2) == FDiv(FOf(1), FOf(K2 - K1))
weight2_of(K1, K2) == FDiv(FOf(-1), FOf(K2 - K1))

total_cost_of(weight1, opt1, weight2, opt2) ==
    FAdd(FMul(weight1, FOf(opt1.last_price)), FMul(weight2, FOf(opt2.last_price)))

\* The returned dictionary, with the locals K1, K2 at the return.
Return(dtype, df, K1, K2, word, fn) ==
    LET opt1 == first_row(df, K1)
        opt2 == first_row(df, K2)
        weight1 == weight1_of(K1, K2)
        weight2 == weight2_of(K1, K2)
    IN [raised |-> "",
        sel |-> <<K1, K2>>,
        result |-> << [option_1 |-> [instrument |-> opt1.instrument_name,
                                     weight |-> weight1,
                                     cost |-> opt1.last_price],
                       option_2 |-> [instrument |-> opt2.instrument_name,
                                     weight |-> weight2,
                                     cost |-> opt2.last_price],
                       note |-> NoteText(word, fn, FormatStrike(dtype, K1),
                                         FormatStrike(dtype, K2)),
                       total_cost |-> total_cost_of(weight1, opt1, weight2, opt2)] >>]

\* Mutant of call_upper_target: the precision left out of the second search.
call_upper_target_no_precision(strike, replication_precision) == strike

\* the value searched for by the second index of each branch
call_upper_target(strike, replication_precision) == strike + replication_precision
put_lower_target(strike, replication_precision) == strike - replication_precision

call_branch(tbl, dtype, strike, expiry_timestamp, replication_precision) ==
    LET df_calls == df_class(tbl, expiry_timestamp, "call")
        strikes == sorted_strikes(df_calls)
        strike1_idx == searchsorted(strikes, strike, "left")
        strike2_idx == searchsorted(strikes, call_upper_target(strike, replication_precision),
                                    "left")
    IN IF strike1_idx >= Len(strikes) \/ strike2_idx >= Len(strikes)
       THEN Raise(NoSuitableStrikes)
       ELSE Return(dtype, df_calls, strikes[strike1_idx + 1], strikes[strike2_idx + 1],
                   <<"c", "a", "l", "l">>, "C")

put_branch(tbl, dtype, strike, expiry_timestamp, replication_precision) ==
    LET df_puts == df_class(tbl, expiry_timestamp, "put")
        strikes == sorted_strikes(df_puts)
        strike2_idx == searchsorted(strikes, strike, "right") - 1
        strike1_idx == searchsorted(strikes, put_lower_target(strike, replication_precision),
                                    "right") - 1
    IN IF strike1_idx < 0 \/ strike2_idx < 0
       THEN Raise(NoSuitableStrikes)
       ELSE Return(dtype, df_puts, strikes[strike1_idx + 1], strikes[strike2_idx + 1],
                   <<"p", "u", "t">>, "P")

\* Mutant of replicate_binary_option: every class other than call taken as put.
replicate_else_put(tbl, dtype, option_type, strike, expiry_timestamp, replication_precision) ==
    IF option_type = "call"
    THEN call_branch(tbl, dtype, strike, expiry_timestamp, replication_precision)
    ELSE put_branch(tbl, dtype, strike, expiry_timestamp, replication_precision)

replicate_binary_option(tbl, dtype, option_type, strike, expiry_timestamp, replication_precision) ==
    IF option_type = "call"
    THEN call_branch(tbl, dtype, strike, expiry_timestamp, replication_precision)
    ELSE IF option_type = "put"
    THEN put_branch(tbl, dtype, strike, expiry_timestamp, replication_precision)
    ELSE Raise(InvalidOptionClass)

\* ------------------------------------------ plot_binary_replication_payoff
IsDigit(c) == c \in {"0", "1", "2", "3", "4", "5", "6", "7", "8", "9"}

RECURSIVE SkipDigits(_, _)
SkipDigits(s, i) ==
    IF i <= Len(s) /\ IsDigit(s[i]) THEN SkipDigits(s, i + 1) ELSE i

\* A match of  \((\d+\.?\d*)\)  starting at position i of s: the position just
\* after it, or 0 when there is none.
MatchAt(s, i) ==
    IF s[i] # "(" THEN 0
    ELSE LET a == SkipDigits(s, i + 1)
             b == IF a <= Len(s) /\ s[a] = "." THEN a + 1 ELSE a
             c == SkipDigits(s, b)
         IN IF a > i + 1 /\ c <= Len(s) /\ s[c] = ")" THEN c + 1 ELSE 0

\* re.findall(r"\((\d+\.?\d*)\)", s): the captured groups of the
\* non-overlapping matches, scanning from position i
RECURSIVE findall(_, _)
findall(s, i) ==
    IF i > Len(s) THEN <<>>
    ELSE LET e == MatchAt(s, i)
         IN IF e # 0 THEN <<SubSeq(s, i + 1, e - 2)>> \o findall(s, e)
            ELSE findall(s, i + 1)

DigitValue(c) == CHOOSE v \in 0..9 : DigitChars[v + 1] = c

\* the number written by the digits s[i..Len(s)], continuing from acc
RECURSIVE IntOfDigits(_, _, _)
IntOfDigits(s, i, acc) ==
    IF i > Len(s) THEN acc ELSE IntOfDigits(s, i + 1, 10 * acc + DigitValue(s[i]))

RECURSIVE Pow10(_)
Pow10(k) == IF k = 0 THEN 1 ELSE 10 * Pow10(k - 1)

\* float(s) for s matching \d+\.?\d*
parse_float(s) ==
    LET a == SkipDigits(s, 1)
        whole == SubSeq(s, 1, a - 1)
        frac == SubSeq(s, a + 1, Len(s))
    IN Float(IntOfDigits(whole \o frac, 1, 0), Pow10(Len(frac)))

\* K1, K2 as the evaluator determines them: parsed from the note, or the
\* weight-based fallback
parsed_strikes(strike, replication) ==
    LET match == findall(replication.note, 1)
    IN IF Len(match) >= 2
       THEN [from_note |-> TRUE,
             K1 |-> parse_float(match[1]), K2 |-> parse_float(match[2])]
       ELSE LET w1 == replication.option_1.weight
                diff == FDiv(FOf(1), w1)
            IN [from_note |-> FALSE,
                K1 |-> FOf(strike), K2 |-> FAdd(FOf(strike), diff)]

call_payoff(S, K) == FMax0(FSub(FOf(S), K))
put_payoff(S, K) == FMax0(FSub(K, FOf(S)))

replicated_payoff_of(option_type, replication, K1, K2, S) ==
    LET payoff_opt1 == IF option_type = "call" THEN call_payoff(S, K1)
                       ELSE put_payoff(S, K1)
        payoff_opt2 == IF option_type = "call" THEN call_payoff(S, K2)
                       ELSE put_payoff(S, K2)
        w1 == replication.option_1.weight
        w2 == replication.option_2.weight
    IN FAdd(FMul(w1, payoff_opt1), FMul(w2, payoff_opt2))

ideal_payoff_of(option_type, strike, S) ==
    IF option_type = "call" THEN (IF S >= strike THEN FOf(1) ELSE FOf(0))
    ELSE (IF S <= strike THEN FOf(1) ELSE FOf(0))

plot_binary_replication_payoff(strike, option_type, replication, price_range) ==
    LET ks == parsed_strikes(strike, replication)
    IN IF option_type \notin {"call", "put"}
       THEN [raised |-> InvalidOptionClass, ks |-> <<ks>>, curve |-> <<>>]
       ELSE [raised |-> "",
             ks |-> <<ks>>,
             curve |-> << [replicated_payoff |->
                              [S \in price_range |->
                                 replicated_payoff_of(option_type, replication,
                                                      ks.K1, ks.K2, S)],
                           ideal_payoff |->
                              [S \in price_range |->
                                 ideal_payoff_of(option_type, strike, S)]] >>]

\* ------------------------------------------------------------ state machine
VARIABLES
    vanilla_option_data,  \* the instrument table
    strike_dtype,         \* dtype of its strike column
    pc,                   \* "start", "replicated" or "plotted"
    args,                 \* arguments of the replicate_binary_option call
    raised,               \* the error it raised, "" when it returned
    sel,                  \* its locals <<K1, K2>> at the return, <<>> otherwise
    result,               \* <<the returned dictionary>>, <<>> when it raised
    plot_args,            \* arguments of the plot_binary_replication_payoff call
    plot_raised,          \* the error it raised, "" when it did not
    plot_ks,              \* <<its locals K1, K2>> once they are set
    curve                 \* <<the two payoff arrays>>, <<>> when it raised

vars == <<vanilla_option_data, strike_dtype, pc, args, raised, sel, result,
          plot_args, plot_raised, plot_ks, curve>>

NoArgs == [option_type |-> "", strike |-> 0, expiry_timestamp |-> 0,
           replication_precision |-> 0]
NoPlotArgs == [option_type |-> "", strike |-> 0]

Init ==
    /\ vanilla_option_data \in Tables
    /\ strike_dtype \in DTypes
    /\ pc = "start"
    /\ args = NoArgs
    /\ raised = ""
    /\ sel = <<>>
    /\ result = <<>>
    /\ plot_args = NoPlotArgs
    /\ plot_raised = ""
    /\ plot_ks = <<>>
    /\ curve = <<>>

\* One call of replicate_binary_option on the table.
Replicate ==
    /\ pc = "start"
    /\ \E option_type \in OptionTypeArgs, strike \in Targets,
          expiry_timestamp \in Expirations, replication_precision \in Precisions :
          \E r \in {replicate_binary_option(vanilla_option_data, strike_dtype,
                                           option_type, strike, expiry_timestamp,
                                           replication_precision)} :
             /\ args' = [option_type |-> option_type, strike |-> strike,
                         expiry_timestamp |-> expiry_timestamp,
                         replication_precision |-> replication_precision]
             /\ raised' = r.raised
             /\ sel' = r.sel
             /\ result' = r.result
    /\ pc' = "replicated"
    /\ UNCHANGED <<vanilla_option_data, strike_dtype, plot_args, plot_raised,
                   plot_ks, curve>>

\* One call of plot_binary_replication_payoff on the returned dictionary.
Plot ==
    /\ pc = "replicated"
    /\ result # <<>>
    /\ \E option_type \in OptionTypeArgs, strike \in Targets :
          \E r \in {plot_binary_replication_payoff(strike, option_type, result[1],
                                                  PriceRange)} :
             /\ plot_args' = [option_type |-> option_type, strike |-> strike]
             /\ plot_raised' = r.raised
             /\ plot_ks' = r.ks
             /\ curve' = r.curve
    /\ pc' = "plotted"
    /\ UNCHANGED <<vanilla_option_data, strike_dtype, args, raised, sel, result>>

Next == Replicate \/ Plot

Spec == Init /\ [][Next]_vars

\* ============================================================== properties
\* Vocabulary of the properties, stated on the table itself.
Called == pc # "start"
Returned == pc # "start" /\ raised = ""
Plotted == pc = "plotted"
K1 == sel[1]
K2 == sel[2]
R == result[1]

\* indices of the rows of the requested expiration and of class cls
SubsetRows(cls) ==
    {i \in DOMAIN vanilla_option_data :
        /\ vanilla_option_data[i].expiration_timestamp = args.expiry_timestamp
        /\ vanilla_option_data[i].option_type = cls}

SubsetStrikes(cls) == {vanilla_option_data[i].strike : i \in SubsetRows(cls)}

MinOf(S) == CHOOSE x \in S : \A y \in S : x <= y
MaxOf(S) == CHOOSE x \in S : \A y \in S : x >= y

T == args.strike
Precision == args.replication_precision

C3_StrictOrder ==
    (Returned /\ Precision > 0) => K1 < K2

\* C4: a call request whose subset has no strike >= T + precision, or a put
\* request whose subset has no strike <= T - precision (the empty subset
\* included), raises the no-suitable-strikes error and returns nothing.
C4_NoSuitableStrikes ==
    (/\ Called
     /\ \/ /\ args.option_type = "call"
           /\ ~ \E k \in SubsetStrikes("call") : k >= T + Precision
        \/ /\ args.option_type = "put"
           /\ ~ \E k \in SubsetStrikes("put") : k <= T - Precision)
    => /\ raised = NoSuitableStrikes
       /\ sel = <<>>
       /\ result = <<>>

\* the first strike exists and only the second one is missing
C4_Witness ==
    /\ Called
    /\ raised = NoSuitableStrikes
    /\ result = <<>>
    /\ args.option_type = "call"
    /\ \E k \in SubsetStrikes("call") : k >= T
    /\ ~ \E k \in SubsetStrikes("call") : k >= T + Precision

\* C5: in every result with K1 # K2 the weight of option_1 is 1 / (K2 - K1), the
\* weight of option_2 is -1 / (K2 - K1), and the two weights sum to exactly 0.
C5_Weights ==
    (Returned /\ K1 # K2)
    => /\ FEq(R.option_1.weight, Float(1, K2 - K1))
       /\ FEq(R.option_2.weight, Float(-1, K2 - K1))
       /\ FEq(FAdd(R.option_1.weight, R.option_2.weight), FOf(0))

C5_Witness ==
    /\ Returned
    /\ K1 # K2
    /\ R.option_1.weight = [n |-> 1, d |-> 2]
    /\ R.option_2.weight = [n |-> -1, d |-> 2]

\* the first row of the subset with strike k, in table order
LegRow(cls, k) ==
    vanilla_option_data[MinOf({i \in SubsetRows(cls) :
                                  vanilla_option_data[i].strike = k})]

\* C6: in every result, total_cost equals option_1.weight * option_1.cost +
\* option_2.weight * option_2.cost, the costs being the last prices of the
\* selected rows, i.e. (price(K1) - price(K2)) / (K2 - K1).
C6_TotalCost ==
    Returned
    => /\ R.option_1.cost = LegRow(args.option_type, K1).last_price
       /\ R.option_2.cost = LegRow(args.option_type, K2).last_price
       /\ FEq(R.total_cost,
              FAdd(FMul(R.option_1.weight, FOf(R.option_1.cost)),
                   FMul(R.option_2.weight, FOf(R.option_2.cost))))
       /\ FEq(R.total_cost,
              FDiv(FOf(LegRow(args.option_type, K1).last_price
                       - LegRow(args.option_type, K2).last_price),
                   FOf(K2 - K1)))

\* C7: an option class other than call and put makes replicate_binary_option
\* raise the invalid-option-class error whatever the table, expiration, target
\* and precision, and makes the payoff evaluator raise it too; neither produces
\* a result or a curve.
C7_InvalidClass ==
    /\ (Called /\ args.option_type \notin {"call", "put"})
       => (raised = InvalidOptionClass /\ result = <<>>)
    /\ (Plotted /\ plot_args.option_type \notin {"call", "put"})
       => (plot_raised = InvalidOptionClass /\ curve = <<>>)

\* replicate_binary_option: the subset of the request has no strike at all
C7_Witness ==
    /\ Called
    /\ args.option_type = "straddle"
    /\ raised = InvalidOptionClass
    /\ result = <<>>
    /\ SubsetStrikes("call") = {}
    /\ SubsetStrikes("put") = {}

\* max(S - K, 0) for calls, max(K - S, 0) for puts, K an integer strike
VanillaPayoff(cls, S, K) ==
    IF cls = "call" THEN (IF S - K > 0 THEN S - K ELSE 0)
    ELSE (IF K - S > 0 THEN K - S ELSE 0)

\* C8: the evaluator recovers the selected K1, K2 from the note of every
\* result (never taking the weight-based fallback), and for the class of the
\* result computes, at every sampled price, replicated = weight_1 *
\* vanillaPayoff(p, K1) + weight_2 * vanillaPayoff(p, K2) and ideal = 1 if
\* p >= strike (call) or p <= strike (put), else 0.
C8_RoundTrip ==
    Plotted
    => /\ plot_ks[1].from_note
       /\ plot_ks[1].K1 = FOf(K1)
       /\ plot_ks[1].K2 = FOf(K2)
       /\ (plot_raised = "" /\ plot_args.option_type = args.option_type)
          => \A S \in PriceRange :
                /\ curve[1].replicated_payoff[S] =
                      FAdd(FMul(R.option_1.weight,
                                FOf(VanillaPayoff(args.option_type, S, K1))),
                           FMul(R.option_2.weight,
                                FOf(VanillaPayoff(args.option_type, S, K2))))
                /\ curve[1].ideal_payoff[S] =
                      IF \/ args.option_type = "call" /\ S >= plot_args.strike
                         \/ args.option_type = "put" /\ S <= plot_args.strike
                      THEN FOf(1) ELSE FOf(0)

\* The part of C8 that holds: when both selected strikes are non-negative the
\* evaluator takes them from the note, for int64 and float64 columns alike.
NoteRoundTripNonNegative ==
    (Plotted /\ K1 >= 0 /\ K2 >= 0)
    => /\ plot_ks[1].from_note
       /\ plot_ks[1].K1 = FOf(K1)
       /\ plot_ks[1].K2 = FOf(K2)

\* C9: for every result with K1 < K2 evaluated with the same strike and class,
\* the replicated payoff lies in [0, 1] at every price; for calls it is 0 below
\* the strike and 1 from K2 upwards, for puts it is 0 above the strike and 1
\* from K1 downwards.
C9_Approximation ==
    (/\ Plotted
     /\ plot_raised = ""
     /\ K1 < K2
     /\ plot_args.option_type = args.option_type
     /\ plot_args.strike = args.strike)
    => \A S \in PriceRange :
          LET v == curve[1].replicated_payoff[S]
          IN /\ FLe(FOf(0), v) /\ FLe(v, FOf(1))
             /\ (args.option_type = "call" /\ S < T) => FEq(v, FOf(0))
             /\ (args.option_type = "call" /\ S >= K2) => FEq(v, FOf(1))
             /\ (args.option_type = "put" /\ S > T) => FEq(v, FOf(0))
             /\ (args.option_type = "put" /\ S <= K1) => FEq(v, FOf(1))

\* the result computed from the rows of the requested expiration and class alone
SubsetTable ==
    SelectSeq(vanilla_option_data,
              LAMBDA r : /\ r.expiration_timestamp = args.expiry_timestamp
                         /\ r.option_type = args.option_type)

\* C10: each leg of a result is the first row, in table order, of the requested
\* expiration and class whose strike is K1 (option_1) or K2 (option_2), with
\* that row's instrument_name and last_price; the rows of other expirations or
\* of the other class change neither the selected strikes nor the legs.
C10_Legs ==
    Returned
    => /\ K1 \in SubsetStrikes(args.option_type)
       /\ K2 \in SubsetStrikes(args.option_type)
       /\ R.option_1.instrument = LegRow(args.option_type, K1).instrument_name
       /\ R.option_1.cost = LegRow(args.option_type, K1).last_price
       /\ R.option_2.instrument = LegRow(args.option_type, K2).instrument_name
       /\ R.option_2.cost = LegRow(args.option_type, K2).last_price
       /\ LET alone == replicate_binary_option(SubsetTable, strike_dtype,
                          args.option_type, args.strike, args.expiry_timestamp,
                          args.replication_precision)
          IN alone.sel = sel /\ alone.result = result

\* two rows of the subset share the strike K1: the leg is the first of them
C10_Witness ==
    /\ Returned
    /\ Cardinality({i \in SubsetRows(args.option_type) :
                       vanilla_option_data[i].strike = K1}) >= 2
    /\ R.option_1.instrument = 1

====
